---- MODULE Spec2Model ----
(***************************************************************************)
(* privatebox: the instance orchestration engine.                          *)
(*                                                                         *)
(* The model follows internal/orchestration/stack.go (StackManager: getEnv,*)
(* getStack, Up, Destroy, GetOutputs, ListStacks), the resource program of *)
(* internal/providers/aws/provider.go (GetPulumiProgram) and the commands  *)
(* of internal/cli (createInstance, destroyInstance, getInstancesWithState)*)
(* The Pulumi engine behind the automation API is modelled by what it does *)
(* at each call site: a stack is a checkpoint of realized resources plus   *)
(* its outputs, resources are registered in program order, a resource that *)
(* is already in the checkpoint with the same inputs is left alone, and a  *)
(* failing step ends the update with the checkpoint kept.                  *)
(***************************************************************************)
EXTENDS FiniteSets, Integers, Sequences, TLC

VARIABLES
    stacks,     \* the state backend: <<backend url, stack name>> -> stack record
    cloud,      \* realized provider resources: <<stack key, urn, id>>
    ops,        \* per instance name: the command in flight (or idle)
    hist,       \* per instance name: summaries of the last completed commands
    latestAmi,  \* what the most-recent image lookup currently resolves to
    nops,       \* number of commands started so far
    getRes,     \* result of the last StackManager.GetOutputs call of a command
    disc,       \* the getInstancesWithState call in flight, and its result
    envCall,    \* the last getEnv call checked on its own: input and result
    build,      \* the last run of a provider program on its own: spec and graph
    madeDirs,   \* directories made under a file backend root outside any stack
    listRes,    \* result of the last listing command (list, user-data usage)
    conf,       \* the configuration directory: config.yaml and config.json
    confRes     \* result of the last configuration or user-data command

vars == <<stacks, cloud, ops, hist, latestAmi, nops, getRes, disc, envCall, build, madeDirs, listRes, conf, confRes>>

----------------------------------------------------------------------------
(* Bounds of the model *)

\* commands (create, destroy, outputs, discovery) started in one behaviour
MaxOps == 2
\* compute instances ever realized for one stack
MaxGen == 2

----------------------------------------------------------------------------
(* strings *)

HasPrefix(s, p) == Len(s) >= Len(p) /\ SubSeq(s, 1, Len(p)) = p

HasSuffix(s, p) == Len(s) >= Len(p) /\ SubSeq(s, Len(s) - Len(p) + 1, Len(s)) = p

TrimPrefix(s, p) == IF HasPrefix(s, p) THEN SubSeq(s, Len(p) + 1, Len(s)) ELSE s

EmptyMap == [x \in {} |-> x]

Without(f, k) == [x \in DOMAIN f \ {k} |-> f[x]]

Lookup(f, k, default) == IF k \in DOMAIN f THEN f[k] ELSE default

SeqToSet(s) == {s[i] : i \in 1..Len(s)}

----------------------------------------------------------------------------
(* configuration: instance names and the profiles a command can select *)

Names == {"dev1", "dev2"}

\* the profiles the lifecycle and discovery commands are run with
ProfileNames == {"default", "work"}

\* config.Profile, as DefaultProfile() plus a key path; a second profile on a
\* remote backend with an image override; one whose key file is missing; the
\* README's profile with a default boot script; one with both a key and an
\* image override, under a root written with ~/ and a trailing slash; and one
\* that keeps its state directly under the home directory
Profiles ==
    ("default" :> [Provider |-> "aws",
                   PulumiBackend |-> "file://~/.privatebox/state",
                   Region |-> "us-east-1",
                   SSHPublicKey |-> "~/.ssh/id_rsa.pub",
                   UserData |-> "",
                   AWS |-> [Profile |-> "", InstanceType |-> "t3.micro", AMI |-> ""]])
    @@
    ("work" :> [Provider |-> "aws",
                PulumiBackend |-> "s3://my-bucket",
                Region |-> "us-west-2",
                SSHPublicKey |-> "",
                UserData |-> "",
                AWS |-> [Profile |-> "my-work-profile", InstanceType |-> "",
                         AMI |-> "ami-0override"]])
    @@
    ("laptop" :> [Provider |-> "aws",
                  PulumiBackend |-> "file:///srv/state/",
                  Region |-> "us-east-1",
                  SSHPublicKey |-> "~/.ssh/missing.pub",
                  UserData |-> "",
                  AWS |-> [Profile |-> "", InstanceType |-> "t3.micro", AMI |-> ""]])
    @@
    ("docker-host" :> [Provider |-> "aws",
                       PulumiBackend |-> "file://~/.privatebox/state",
                       Region |-> "us-east-1",
                       SSHPublicKey |-> "",
                       UserData |-> "#!/bin/bash\napt-get install -y docker.io",
                       AWS |-> [Profile |-> "", InstanceType |-> "t3.small",
                                AMI |-> "ami-0override"]])
    @@
    ("pinned" :> [Provider |-> "aws",
                  PulumiBackend |-> "file://~/boxes/",
                  Region |-> "us-east-1",
                  SSHPublicKey |-> "~/.ssh/id_rsa.pub",
                  UserData |-> "",
                  AWS |-> [Profile |-> "", InstanceType |-> "t3.micro",
                           AMI |-> "ami-0pinned"]])
    @@
    ("home" :> [Provider |-> "aws",
                PulumiBackend |-> "file://~",
                Region |-> "us-east-1",
                SSHPublicKey |-> "",
                UserData |-> "",
                AWS |-> [Profile |-> "", InstanceType |-> "t3.micro",
                         AMI |-> "ami-0pinned"]])

\* AppConfig.UserData: the stored boot scripts, by alias
StoredUserData == ("bootstrap" :> "#!/bin/bash\napt-get update")

\* the local files the commands read
Files == ("./setup.sh" :> "#!/bin/sh\necho adhoc") @@
         ("~/.ssh/id_rsa.pub" :> "ssh-rsa AAAA")

\* images the most-recent lookup resolves to over time, oldest first
Amis == <<"ami-2024", "ami-2025">>

----------------------------------------------------------------------------
(* config.Loader: the configuration file and the AppConfig it stores *)

\* NewAppConfig: no current profile, empty maps
NewAppConfig == [CurrentProfile |-> "", Profiles |-> EmptyMap, UserData |-> EmptyMap]

ZeroAWS == [Profile |-> "", InstanceType |-> "", AMI |-> ""]

DefaultProfile ==
    [Provider |-> "aws", PulumiBackend |-> "file://~/.privatebox/state",
     Region |-> "us-east-1", SSHPublicKey |-> "",
     ConnectCommand |-> "ssh -i {key} {user}@{ip}", UserData |-> "", Env |-> EmptyMap,
     AWS |-> [Profile |-> "", InstanceType |-> "t3.micro", AMI |-> ""]]

\* a profile as yaml.Marshal writes it: every key of the struct, except the
\* omitempty ones (user_data, env, aws) when they hold the zero value
MarshalProfileWithoutEnv(p) ==
    [provider |-> p.Provider, pulumi_backend |-> p.PulumiBackend, region |-> p.Region,
     ssh_public_key_path |-> p.SSHPublicKey, connect_command |-> p.ConnectCommand]
    @@ (IF p.UserData # "" THEN [user_data |-> p.UserData] ELSE EmptyMap)
    @@ (IF p.AWS # ZeroAWS
        THEN [aws |-> [profile |-> p.AWS.Profile, instance_type |-> p.AWS.InstanceType,
                       ami |-> p.AWS.AMI]]
        ELSE EmptyMap)

MarshalProfile(p) ==
    [provider |-> p.Provider, pulumi_backend |-> p.PulumiBackend, region |-> p.Region,
     ssh_public_key_path |-> p.SSHPublicKey, connect_command |-> p.ConnectCommand]
    @@ (IF p.UserData # "" THEN [user_data |-> p.UserData] ELSE EmptyMap)
    @@ (IF p.Env # EmptyMap THEN [env |-> p.Env] ELSE EmptyMap)
    @@ (IF p.AWS # ZeroAWS
        THEN [aws |-> [profile |-> p.AWS.Profile, instance_type |-> p.AWS.InstanceType,
                       ami |-> p.AWS.AMI]]
        ELSE EmptyMap)

\* a profile as Unmarshal reads it: a missing key leaves the zero value
UnmarshalProfile(d) ==
    [Provider |-> Lookup(d, "provider", ""),
     PulumiBackend |-> Lookup(d, "pulumi_backend", ""),
     Region |-> Lookup(d, "region", ""),
     SSHPublicKey |-> Lookup(d, "ssh_public_key_path", ""),
     ConnectCommand |-> Lookup(d, "connect_command", ""),
     UserData |-> Lookup(d, "user_data", ""),
     Env |-> Lookup(d, "env", EmptyMap),
     AWS |-> IF "aws" \in DOMAIN d
             THEN [Profile |-> d.aws.profile, InstanceType |-> d.aws.instance_type,
                   AMI |-> d.aws.ami]
             ELSE ZeroAWS]

\* the document yaml.Marshal writes for an AppConfig (a nil map is written as
\* an empty mapping, like an empty one)
Marshal(cfg) ==
    [current_profile |-> cfg.CurrentProfile,
     profiles |-> [n \in DOMAIN cfg.Profiles |-> MarshalProfile(cfg.Profiles[n])],
     user_data |-> cfg.UserData]

\* the AppConfig Unmarshal fills from a document that has a profiles mapping
Unmarshal(doc) ==
    [CurrentProfile |-> Lookup(doc, "current_profile", ""),
     Profiles |-> [n \in DOMAIN doc.profiles |-> UnmarshalProfile(doc.profiles[n])],
     UserData |-> Lookup(doc, "user_data", EmptyMap)]

\* the configuration directory: each file is absent ({}) or holds a document
NoFiles == [yaml |-> {}, json |-> {}]

\* a file whose content does not parse
Unparsable == [syntax |-> "error"]

\* Loader.Load: config.yaml, else the legacy config.json (an AppConfig, or
\* the older single profile, which is wrapped as "default"), else the default
Load(files) ==
    IF files.yaml # {}
    THEN LET doc == CHOOSE d \in files.yaml : TRUE
         IN  IF doc = Unparsable
             THEN [err |-> "failed to parse yaml config", cfg |-> NewAppConfig]
             ELSE IF "profiles" \notin DOMAIN doc
                  THEN [err |-> "", cfg |-> NewAppConfig]
             ELSE [err |-> "", cfg |-> Unmarshal(doc)]
    ELSE IF files.json # {}
    THEN LET doc == CHOOSE d \in files.json : TRUE
         IN  IF doc = Unparsable
             THEN [err |-> "failed to parse legacy config", cfg |-> NewAppConfig]
             ELSE IF "profiles" \notin DOMAIN doc
                  THEN IF Lookup(doc, "provider", "") # ""
                       THEN [err |-> "",
                             cfg |-> [NewAppConfig EXCEPT
                                        !.Profiles = ("default" :> UnmarshalProfile(doc))]]
                       ELSE [err |-> "", cfg |-> NewAppConfig]
             ELSE [err |-> "", cfg |-> Unmarshal(doc)]
    ELSE [err |-> "", cfg |-> NewAppConfig]

\* Loader.Save: config.yaml is (re)written
Save(files, cfg) == [files EXCEPT !.yaml = {Marshal(cfg)}]

\* the configuration the instance commands start with: the profiles above,
\* "default" current, and the stored boot scripts
InitialConfig ==
    [CurrentProfile |-> "default",
     Profiles |-> [n \in DOMAIN Profiles |->
                     Profiles[n] @@ [ConnectCommand |-> "ssh -i {key} {user}@{ip}",
                                     Env |-> EmptyMap]],
     UserData |-> StoredUserData]

----------------------------------------------------------------------------
(* StackManager.getEnv *)

getEnvSharedRoot(cfg, stackName) ==
    ("PULUMI_CONFIG_PASSPHRASE" :> "") @@
    ("PULUMI_BACKEND_URL" :> cfg.PulumiBackend) @@
    (IF cfg.AWS.Profile # "" THEN ("AWS_PROFILE" :> cfg.AWS.Profile) ELSE EmptyMap) @@
    ("AWS_REGION" :> cfg.Region)

getEnvAlwaysAppendsSlash(cfg, stackName) ==
    LET backend == IF HasPrefix(cfg.PulumiBackend, "file://")
                   THEN cfg.PulumiBackend \o "/" \o stackName
                   ELSE cfg.PulumiBackend
    IN  ("PULUMI_CONFIG_PASSPHRASE" :> "") @@
        ("PULUMI_BACKEND_URL" :> backend) @@
        (IF cfg.AWS.Profile # "" THEN ("AWS_PROFILE" :> cfg.AWS.Profile) ELSE EmptyMap) @@
        ("AWS_REGION" :> cfg.Region)

getEnv(cfg, stackName) ==
    LET withSlash == IF HasSuffix(cfg.PulumiBackend, "/")
                     THEN cfg.PulumiBackend
                     ELSE cfg.PulumiBackend \o "/"
        backend == IF HasPrefix(cfg.PulumiBackend, "file://")
                   THEN withSlash \o stackName
                   ELSE cfg.PulumiBackend
    IN  ("PULUMI_CONFIG_PASSPHRASE" :> "") @@
        ("PULUMI_BACKEND_URL" :> backend) @@
        (IF cfg.AWS.Profile # "" THEN ("AWS_PROFILE" :> cfg.AWS.Profile) ELSE EmptyMap) @@
        ("AWS_REGION" :> cfg.Region)

\* inputs of the getEnv calls checked on their own (the table of
\* TestStackManager_getEnv, and more backends of each scheme)
EnvBackends == {"file://~/.privatebox/state", "file:///tmp/state/", "file:///tmp/state",
                "file://", "s3://my-bucket", "s3://my-bucket/", "https://api.pulumi.com",
                "azblob://state/", "gs://bucket-file://"}

EnvNames == {"dev1", "dev2", "a", "web-01"}

EnvRegions == {"us-east-1", "eu-west-1"}

EnvAwsProfiles == {"", "my-work-profile"}

NoCall == [called |-> FALSE]

CallGetEnv(backend, name, region, awsProfile) ==
    LET cfg == [PulumiBackend |-> backend, Region |-> region,
                AWS |-> [Profile |-> awsProfile]]
    IN  /\ envCall' = [called |-> TRUE, backend |-> backend, name |-> name,
                       region |-> region, awsProfile |-> awsProfile,
                       env |-> getEnv(cfg, name)]
        /\ UNCHANGED <<stacks, cloud, ops, hist, latestAmi, nops, getRes, disc, build, madeDirs, listRes, conf, confRes>>

----------------------------------------------------------------------------
(* the state backend: stacks, keyed by backend url and stack name *)

\* auto.Stack as the backend holds it: the checkpoint of realized resources in
\* creation order, the stack outputs, the stack config and the number of
\* compute instances realized so far (the source of fresh instance ids)
EmptyStack == [resources |-> <<>>, outputs |-> EmptyMap, region |-> "", serial |-> 0]

\* the stack a StackManager addresses: the backend url of getEnv and stackName
StackKeyByProject(cfg, stackName) ==
    <<getEnv(cfg, "privatebox")["PULUMI_BACKEND_URL"], "privatebox">>

StackKey(cfg, stackName) == <<getEnv(cfg, stackName)["PULUMI_BACKEND_URL"], stackName>>

\* auto.UpsertStackInlineSource: select the stack, create it empty if absent
UpsertStackAlwaysNew(st, key) == (key :> EmptyStack) @@ st

UpsertStack(st, key) == IF key \in DOMAIN st THEN st ELSE (key :> EmptyStack) @@ st

\* stack.SetConfig("aws:region")
SetConfig(st, key, region) == [st EXCEPT ![key].region = region]

Urns(stack) == {stack.resources[i].urn : i \in 1..Len(stack.resources)}

ResourceOf(stack, urn) ==
    LET i == CHOOSE j \in 1..Len(stack.resources) : stack.resources[j].urn = urn
    IN  stack.resources[i]

RECURSIVE KeepUrns(_, _)
\* the elements of s whose urn is in keep, in order
KeepUrns(s, keep) ==
    IF s = <<>> THEN <<>>
    ELSE IF Head(s).urn \in keep THEN <<Head(s)>> \o KeepUrns(Tail(s), keep)
    ELSE KeepUrns(Tail(s), keep)

----------------------------------------------------------------------------
(* AWSProvider.GetPulumiProgram: the resources of one instance, in the     *)
(* order the program registers them                                        *)

Resource(role, type, name, deps, inputs) ==
    [kind |-> "resource", role |-> role, urn |-> <<type, name>>, deps |-> deps,
     inputs |-> inputs]

\* readPublicKey: the key file's content, or an error
readPublicKey(path) ==
    IF path = "" THEN [ok |-> FALSE, content |-> ""]
    ELSE IF path \in DOMAIN Files THEN [ok |-> TRUE, content |-> Files[path]]
    ELSE [ok |-> FALSE, content |-> ""]

\* the tags of the compute instance
InstanceTags(spec) ==
    ("Name" :> spec.Name) @@
    (IF spec.UserDataName # "" THEN ("UserDataName" :> spec.UserDataName) ELSE EmptyMap)

InstanceTagsMerged(spec) ==
    [k \in DOMAIN spec.Tags \cup DOMAIN InstanceTags(spec) |->
        IF k \in DOMAIN spec.Tags THEN spec.Tags[k] ELSE InstanceTags(spec)[k]]

\* the arguments of ec2.NewInstance, once the image id is resolved
InstanceArgsImageFromLookup(cfg, spec, amiID) ==
    [InstanceType |-> IF cfg.AWS.InstanceType = "" THEN "t3.micro" ELSE cfg.AWS.InstanceType,
     Ami |-> latestAmi,
     KeyName |-> IF cfg.SSHPublicKey # "" THEN spec.Name \o "-key" ELSE "",
     UserData |-> spec.UserData,
     Tags |-> InstanceTagsMerged(spec)]

InstanceArgs(cfg, spec, amiID) ==
    [InstanceType |-> IF cfg.AWS.InstanceType = "" THEN "t3.micro" ELSE cfg.AWS.InstanceType,
     Ami |-> amiID,
     KeyName |-> IF cfg.SSHPublicKey # "" THEN spec.Name \o "-key" ELSE "",
     UserData |-> spec.UserData,
     Tags |-> InstanceTagsMerged(spec)]

\* the program with the compute instance registered before the instance
\* profile
ProgramInstanceBeforeProfile(cfg, spec) ==
    << [kind |-> "invoke", what |-> "getCallerIdentity"],
       Resource("key", "aws:kms/key:Key", spec.Name \o "-key", {},
                [Description |-> "Key for " \o spec.Name]),
       Resource("sg", "aws:ec2/securityGroup:SecurityGroup", spec.Name \o "-sg", {},
                [Name |-> spec.Name \o "-sg"]),
       Resource("role", "aws:iam/role:Role", spec.Name \o "-role", {},
                [Name |-> spec.Name \o "-role"]),
       Resource("rpa", "aws:iam/rolePolicyAttachment:RolePolicyAttachment",
                spec.Name \o "-rpa", {"role"}, [Role |-> spec.Name \o "-role"]) >>
    \o (IF cfg.SSHPublicKey # ""
        THEN << [kind |-> "read", path |-> cfg.SSHPublicKey],
                Resource("keypair", "aws:ec2/keyPair:KeyPair", spec.Name \o "-key", {},
                         [PublicKey |-> readPublicKey(cfg.SSHPublicKey).content]) >>
        ELSE <<>>)
    \o (IF cfg.AWS.AMI = ""
        THEN << [kind |-> "invoke", what |-> "lookupAmi"] >>
        ELSE <<>>)
    \o << Resource("instance", "aws:ec2/instance:Instance", spec.Name,
                   {"key", "sg", "profile"} \cup
                       (IF cfg.SSHPublicKey # "" THEN {"keypair"} ELSE {}),
                   EmptyMap),
          Resource("profile", "aws:iam/instanceProfile:InstanceProfile",
                   spec.Name \o "-profile", {"role"}, [Role |-> spec.Name \o "-role"]) >>

\* the steps of the program for provider configuration cfg and spec; the image
\* id of the instance step is filled in when the step runs
Program(cfg, spec) ==
    << [kind |-> "invoke", what |-> "getCallerIdentity"],
       Resource("key", "aws:kms/key:Key", spec.Name \o "-key", {},
                [Description |-> "Key for " \o spec.Name]),
       Resource("sg", "aws:ec2/securityGroup:SecurityGroup", spec.Name \o "-sg", {},
                [Name |-> spec.Name \o "-sg"]),
       Resource("role", "aws:iam/role:Role", spec.Name \o "-role", {},
                [Name |-> spec.Name \o "-role"]),
       Resource("rpa", "aws:iam/rolePolicyAttachment:RolePolicyAttachment",
                spec.Name \o "-rpa", {"role"}, [Role |-> spec.Name \o "-role"]),
       Resource("profile", "aws:iam/instanceProfile:InstanceProfile",
                spec.Name \o "-profile", {"role"}, [Role |-> spec.Name \o "-role"]) >>
    \o (IF cfg.SSHPublicKey # ""
        THEN << [kind |-> "read", path |-> cfg.SSHPublicKey],
                Resource("keypair", "aws:ec2/keyPair:KeyPair", spec.Name \o "-key", {},
                         [PublicKey |-> readPublicKey(cfg.SSHPublicKey).content]) >>
        ELSE <<>>)
    \o (IF cfg.AWS.AMI = ""
        THEN << [kind |-> "invoke", what |-> "lookupAmi"] >>
        ELSE <<>>)
    \o << Resource("instance", "aws:ec2/instance:Instance", spec.Name,
                   {"key", "sg", "profile"} \cup
                       (IF cfg.SSHPublicKey # "" THEN {"keypair"} ELSE {}),
                   EmptyMap) >>

\* the inputs of a step with the image always taken from the lookup
StepInputsLatestImage(cfg, spec, step, amiID) ==
    IF step.role = "instance" THEN InstanceArgs(cfg, spec, latestAmi) ELSE step.inputs

\* the inputs the engine sees for a step (the instance's depend on the image)
StepInputs(cfg, spec, step, amiID) ==
    IF step.role = "instance" THEN InstanceArgs(cfg, spec, amiID) ELSE step.inputs

\* the stack outputs the program exports once the instance is realized
Exports(spec, instanceID) ==
    ("instanceID" :> instanceID) @@
    ("publicIP" :> "pub-" \o instanceID) @@
    ("privateIP" :> "priv-" \o instanceID) @@
    ("publicDNS" :> "dns-" \o instanceID) @@
    (IF spec.ProfileName # "" THEN ("profileName" :> spec.ProfileName) ELSE EmptyMap) @@
    ("userDataName" :> Lookup(InstanceTagsMerged(spec), "UserDataName", ""))

InstanceId(stackName, serial) == "i-" \o stackName \o "-" \o ToString(serial)

\* what the engine does with a registered resource, given the checkpoint
Diff(stack, urn, inputs) ==
    IF urn \notin Urns(stack) THEN "create"
    ELSE IF ResourceOf(stack, urn).inputs = inputs THEN "same"
    ELSE IF urn[1] = "aws:ec2/instance:Instance"
            /\ (ResourceOf(stack, urn).inputs.Ami # inputs.Ami
                \/ ResourceOf(stack, urn).inputs.KeyName # inputs.KeyName)
         THEN "replace"
    ELSE "update"

----------------------------------------------------------------------------
(* the program of a spec run on its own, every provider call succeeding *)

\* the first step of prog at which the program returns an error, 0 if none:
\* the only error the program raises by itself is an unreadable key file
FailingStep(prog) ==
    LET bad == {i \in 1..Len(prog) :
                   prog[i].kind = "read" /\ ~readPublicKey(prog[i].path).ok}
    IN  IF bad = {} THEN 0 ELSE CHOOSE i \in bad : \A j \in bad : i <= j

\* what running GetPulumiProgram(spec) registers and exports: the resource
\* nodes in order, the arguments of the instance and the exports if the
\* program gets that far, and the error it returns
RunProgram(cfg, spec) ==
    LET prog == Program(cfg, spec)
        failAt == FailingStep(prog)
        last == IF failAt = 0 THEN Len(prog) ELSE failAt - 1
        amiID == IF cfg.AWS.AMI = "" THEN latestAmi ELSE cfg.AWS.AMI
    IN  [err |-> IF failAt = 0 THEN "" ELSE "failed to read ssh key",
         nodes |-> [j \in 1..Cardinality({i \in 1..last : prog[i].kind = "resource"}) |->
                       LET i == CHOOSE i \in 1..last :
                                   /\ prog[i].kind = "resource"
                                   /\ Cardinality({h \in 1..i : prog[h].kind = "resource"}) = j
                       IN  prog[i].urn],
         instance |-> IF failAt = 0 THEN {InstanceArgs(cfg, spec, amiID)} ELSE {},
         exports |-> IF failAt = 0 THEN Exports(spec, InstanceId(spec.Name, 1))
                     ELSE EmptyMap]

\* the specs a caller of the provider can pass: any name (the empty one too),
\* no script, a stored script or an ad hoc one, and any tag map
SpecNames == {"", "dev1", "dev2"}

SpecScripts == {[content |-> "", name |-> ""],
                [content |-> "#!/bin/bash\napt-get update", name |-> "bootstrap"],
                [content |-> "#!/bin/sh\necho adhoc", name |-> ""]}

SpecTags == {EmptyMap, ("Name" :> "other"), ("UserDataName" :> "mine"),
             ("Team" :> "infra")}

CallProgram(profileName, name, script, tags) ==
    LET cfg == Profiles[profileName]
        spec == [Name |-> name, Type |-> cfg.AWS.InstanceType,
                 UserData |-> script.content, UserDataName |-> script.name,
                 ProfileName |-> profileName, Tags |-> tags]
        run == RunProgram(cfg, spec)
    IN  /\ build' = [called |-> TRUE, cfgName |-> profileName, spec |-> spec,
                     err |-> run.err, nodes |-> run.nodes, instance |-> run.instance,
                     exports |-> run.exports]
        /\ UNCHANGED <<stacks, cloud, ops, hist, latestAmi, nops, getRes, disc, envCall,
                       madeDirs, listRes, conf, confRes>>

----------------------------------------------------------------------------
(* commands in flight and their summaries *)

Idle == [kind |-> "idle"]

\* the summary of a completed command on an instance name
Summary(o, ok, post) ==
    [kind |-> o.kind, ok |-> ok, at |-> o.at, cfgName |-> o.cfgName, spec |-> o.spec,
     key |-> o.key,
     ami |-> o.ami, created |-> o.created, replaced |-> o.replaced,
     updated |-> o.updated, removed |-> o.removed, pre |-> o.pre, post |-> post]

\* the last two summaries, most recent first
Push(h, s) == IF h = <<>> THEN <<s>> ELSE <<s, Head(h)>>

\* a failed step is passed over and the command goes on with the next one
FinishSkipsFailedStep(name, ok, st) ==
    /\ ops' = [ops EXCEPT ![name].pc = @ + 1]
    /\ hist' = hist

\* the command on name returns: its summary is recorded
Finish(name, ok, st) ==
    /\ ops' = [ops EXCEPT ![name] = Idle]
    /\ hist' = [hist EXCEPT ![name] = Push(@, Summary(ops[name], ok, st[ops[name].key]))]

----------------------------------------------------------------------------
(* createInstance and StackManager.Up *)

\* --user-data: a stored alias, else a file path
ResolveUserData(userDataArg) ==
    IF userDataArg = "" THEN [ok |-> TRUE, content |-> "", name |-> ""]
    ELSE IF userDataArg \in DOMAIN Load(conf).cfg.UserData
         THEN [ok |-> TRUE, content |-> Load(conf).cfg.UserData[userDataArg],
               name |-> userDataArg]
    ELSE IF userDataArg \in DOMAIN Files
         THEN [ok |-> TRUE, content |-> Files[userDataArg], name |-> ""]
    ELSE [ok |-> FALSE, content |-> "", name |-> ""]

\* the InstanceSpec createInstance builds
MakeSpec(name, profileName, userDataArg, instanceType) ==
    [Name |-> name,
     Type |-> IF instanceType # "" THEN instanceType
              ELSE Profiles[profileName].AWS.InstanceType,
     UserData |-> ResolveUserData(userDataArg).content,
     UserDataName |-> ResolveUserData(userDataArg).name,
     ProfileName |-> profileName,
     Tags |-> EmptyMap]

\* the configuration the provider of a command works with: the copy of the
\* profile NewAWSProvider took when getStackManager built it
ProviderCfg(profileName) == Profiles[profileName]

\* createInstance up to the start of stack.Up: the profile is loaded, the
\* spec built, the stack upserted and its region set (getStack)
CreateInstance(name, profileName, userDataArg, instanceType) ==
    LET profile == Profiles[profileName]
        key == StackKey(profile, name)
        upserted == UpsertStack(stacks, key)
    IN  /\ name # ""
        /\ nops < MaxOps
        /\ ops[name].kind = "idle"
        /\ profile.Provider = "aws"
        /\ ResolveUserData(userDataArg).ok
        /\ stacks' = SetConfig(upserted, key, profile.Region)
        /\ ops' = [ops EXCEPT ![name] =
                     [kind |-> "up", cfgName |-> profileName,
                      spec |-> MakeSpec(name, profileName, userDataArg, instanceType),
                      key |-> key, at |-> nops + 1, pc |-> 1, ami |-> profile.AWS.AMI,
                      registered |-> {}, created |-> {}, replaced |-> {},
                      updated |-> {}, removed |-> {},
                      pre |-> Lookup(stacks, key, EmptyStack)]]
        /\ nops' = nops + 1
        /\ UNCHANGED <<cloud, hist, latestAmi, getRes, disc, envCall, build, madeDirs, listRes, conf, confRes>>

\* the checkpoint after the engine realized a step's resource
Realize(stack, stackName, step, inputs, d) ==
    LET isInstance == step.role = "instance"
        id == IF isInstance /\ d # "update" THEN InstanceId(stackName, stack.serial + 1)
              ELSE IF d = "create" THEN step.urn[2]
              ELSE ResourceOf(stack, step.urn).id
        rec == [urn |-> step.urn, inputs |-> inputs, id |-> id]
    IN  [stack EXCEPT
           !.resources = IF d = "create" THEN Append(@, rec)
                         ELSE [i \in 1..Len(@) |-> IF @[i].urn = step.urn THEN rec ELSE @[i]],
           !.serial = IF isInstance /\ d # "update" THEN @ + 1 ELSE @]

\* one step of the program under stack.Up; ok is whether the provider call of
\* the step (if it makes one) succeeds
UpStep(name, ok) ==
    LET o == ops[name]
        cfg == ProviderCfg(o.cfgName)
        prog == Program(cfg, o.spec)
        step == prog[o.pc]
        stack == stacks[o.key]
        inputs == StepInputs(cfg, o.spec, step, o.ami)
        d == Diff(stack, step.urn, inputs)
        fresh == step.role = "instance" /\ d \in {"create", "replace"}
        after == Realize(stack, o.key[2], step, inputs, d)
    IN  /\ o.kind = "up"
        /\ o.pc <= Len(prog)
        /\ CASE step.kind = "invoke" ->
                  IF ok
                  THEN /\ ops' = [ops EXCEPT ![name].pc = @ + 1,
                                             ![name].ami = IF step.what = "lookupAmi"
                                                           THEN latestAmi ELSE @]
                       /\ UNCHANGED <<stacks, cloud, hist>>
                  ELSE /\ Finish(name, FALSE, stacks)
                       /\ UNCHANGED <<stacks, cloud>>
             [] step.kind = "read" ->
                  /\ ok
                  /\ IF readPublicKey(step.path).ok
                     THEN /\ ops' = [ops EXCEPT ![name].pc = @ + 1]
                          /\ UNCHANGED <<stacks, cloud, hist>>
                     ELSE /\ Finish(name, FALSE, stacks)
                          /\ UNCHANGED <<stacks, cloud>>
             [] step.kind = "resource" /\ d = "same" ->
                  /\ ok
                  /\ ops' = [ops EXCEPT ![name].pc = @ + 1,
                                        ![name].registered = @ \cup {step.urn}]
                  /\ UNCHANGED <<stacks, cloud, hist>>
             [] step.kind = "resource" /\ d # "same" ->
                  IF ok
                  THEN /\ fresh => stack.serial < MaxGen
                       /\ stacks' = [stacks EXCEPT ![o.key] = after]
                       /\ cloud' = (cloud \ {<<o.key, step.urn, r.id>> :
                                                r \in {x \in SeqToSet(stack.resources) :
                                                          x.urn = step.urn}})
                                   \cup {<<o.key, step.urn, ResourceOf(after, step.urn).id>>}
                       /\ ops' = [ops EXCEPT
                                    ![name].pc = @ + 1,
                                    ![name].registered = @ \cup {step.urn},
                                    ![name].created = IF d = "create"
                                                      THEN @ \cup {step.urn} ELSE @,
                                    ![name].replaced = IF d = "replace"
                                                       THEN @ \cup {step.urn} ELSE @,
                                    ![name].updated = IF d = "update"
                                                      THEN @ \cup {step.urn} ELSE @]
                       /\ UNCHANGED hist
                  ELSE /\ Finish(name, FALSE, stacks)
                       /\ UNCHANGED <<stacks, cloud>>
        /\ UNCHANGED <<latestAmi, nops, getRes, disc, envCall, build, madeDirs, listRes, conf, confRes>>

\* the program returned: the engine removes what the program no longer
\* registers and records the exports as the stack outputs; Up returns
UpFinish(name) ==
    LET o == ops[name]
        cfg == ProviderCfg(o.cfgName)
        prog == Program(cfg, o.spec)
        stack == stacks[o.key]
        stale == Urns(stack) \ o.registered
        instance == ResourceOf(stack, <<"aws:ec2/instance:Instance", o.spec.Name>>)
        st == [stacks EXCEPT ![o.key] =
                 [stack EXCEPT !.resources = KeepUrns(@, o.registered),
                               !.outputs = Exports(o.spec, instance.id)]]
    IN  /\ o.kind = "up"
        /\ o.pc = Len(prog) + 1
        /\ stacks' = st
        /\ cloud' = {r \in cloud : ~(r[1] = o.key /\ r[2] \in stale)}
        /\ ops' = [ops EXCEPT ![name] = Idle]
        /\ hist' = [hist EXCEPT ![name] =
                      Push(@, Summary([o EXCEPT !.removed = stale], TRUE, st[o.key]))]
        /\ UNCHANGED <<latestAmi, nops, getRes, disc, envCall, build, madeDirs, listRes, conf, confRes>>

----------------------------------------------------------------------------
(* destroyInstance and StackManager.Destroy *)

\* the stack record once stack.Destroy returned (succeeded or not): Destroy
\* never removes the stack itself; a full destroy leaves it without outputs
RecordAfterDestroyRemoved(st, key, succeeded) == Without(st, key)

RecordAfterDestroy(st, key, succeeded) ==
    IF succeeded THEN [st EXCEPT ![key].outputs = EmptyMap] ELSE st

DestroyInstance(name, profileName) ==
    LET profile == Profiles[profileName]
        key == StackKey(profile, name)
    IN  /\ name # ""
        /\ nops < MaxOps
        /\ ops[name].kind = "idle"
        /\ profile.Provider = "aws"
        /\ stacks' = UpsertStack(stacks, key)
        /\ ops' = [ops EXCEPT ![name] =
                     [kind |-> "destroy", cfgName |-> profileName,
                      spec |-> [Name |-> name], key |-> key, at |-> nops + 1, pc |-> 1,
                      ami |-> "",
                      registered |-> {}, created |-> {}, replaced |-> {},
                      updated |-> {}, removed |-> {},
                      pre |-> Lookup(stacks, key, EmptyStack)]]
        /\ nops' = nops + 1
        /\ UNCHANGED <<cloud, hist, latestAmi, getRes, disc, envCall, build, madeDirs, listRes, conf, confRes>>

\* stack.Destroy removes the realized resources newest first; ok is whether
\* the provider's delete call succeeds
DestroyStep(name, ok) ==
    LET o == ops[name]
        stack == stacks[o.key]
        last == stack.resources[Len(stack.resources)]
        st == RecordAfterDestroy(stacks, o.key, FALSE)
    IN  /\ o.kind = "destroy"
        /\ stack.resources # <<>>
        /\ IF ok
           THEN /\ stacks' = [stacks EXCEPT ![o.key].resources =
                                 SubSeq(@, 1, Len(@) - 1)]
                /\ cloud' = cloud \ {<<o.key, last.urn, last.id>>}
                /\ ops' = [ops EXCEPT ![name].removed = @ \cup {last.urn}]
                /\ UNCHANGED hist
           ELSE /\ stacks' = st
                /\ ops' = [ops EXCEPT ![name] = Idle]
                /\ hist' = [hist EXCEPT ![name] =
                              Push(@, Summary(o, FALSE, Lookup(st, o.key, EmptyStack)))]
                /\ UNCHANGED cloud
        /\ UNCHANGED <<latestAmi, nops, getRes, disc, envCall, build, madeDirs, listRes, conf, confRes>>

DestroyFinish(name) ==
    LET o == ops[name]
        stack == stacks[o.key]
        st == RecordAfterDestroy(stacks, o.key, TRUE)
    IN  /\ o.kind = "destroy"
        /\ stack.resources = <<>>
        /\ stacks' = st
        /\ ops' = [ops EXCEPT ![name] = Idle]
        /\ hist' = [hist EXCEPT ![name] =
                      Push(@, Summary(o, TRUE, Lookup(st, o.key, EmptyStack)))]
        /\ UNCHANGED <<cloud, latestAmi, nops, getRes, disc, envCall, build, madeDirs, listRes, conf, confRes>>

----------------------------------------------------------------------------
(* StackManager.GetOutputs *)

\* what GetOutputs returns on store st, and the store it leaves; backendOk is
\* whether the backend answers
GetOutputsOn(st, cfg, stackName, backendOk) ==
    LET key == StackKey(cfg, stackName)
        upserted == UpsertStack(st, key)
    IN  IF backendOk
        THEN [err |-> "", outs |-> upserted[key].outputs, store |-> upserted]
        ELSE [err |-> "failed to select stack", outs |-> EmptyMap, store |-> st]

NoResult == [called |-> FALSE]

\* a command that reads the outputs of a named instance
GetOutputs(name, profileName, backendOk) ==
    LET profile == Profiles[profileName]
        key == StackKey(profile, name)
        res == GetOutputsOn(stacks, profile, name, backendOk)
    IN  /\ name # ""
        /\ nops < MaxOps
        /\ profile.Provider = "aws"
        /\ stacks' = res.store
        /\ getRes' = [called |-> TRUE, name |-> name, cfgName |-> profileName,
                      err |-> res.err, outs |-> res.outs,
                      existed |-> key \in DOMAIN stacks]
        /\ nops' = nops + 1
        /\ UNCHANGED <<cloud, ops, hist, latestAmi, disc, envCall, build, madeDirs, listRes, conf, confRes>>

----------------------------------------------------------------------------
(* ListStacks: the directories under the root of a file backend *)

\* os.UserHomeDir
Home == "/home/user"

\* a leading ~/ replaced by the home directory, and a trailing / dropped
\* (filepath.Join and os.ReadDir take the path either way)
ExpandPath(path) ==
    LET expanded == IF HasPrefix(path, "~/")
                    THEN Home \o "/" \o SubSeq(path, 3, Len(path))
                    ELSE path
    IN  IF Len(expanded) > 1 /\ HasSuffix(expanded, "/")
        THEN SubSeq(expanded, 1, Len(expanded) - 1)
        ELSE expanded

\* the directories the file system holds: one per stack of a file:// url, and
\* the ones made outside any stack
Directories(st) ==
    {ExpandPath(TrimPrefix(k[1], "file://")) : k \in {x \in DOMAIN st : HasPrefix(x[1], "file://")}}
    \cup madeDirs

\* the instance names in the order os.ReadDir lists them (by file name)
NamesSorted == <<"dev1", "dev2">>

RECURSIVE EntriesOf(_, _, _)
\* the names of sorted, from index i on, that are a directory directly under path
EntriesOf(path, dirs, i) ==
    IF i > Len(NamesSorted) THEN <<>>
    ELSE IF (path \o "/" \o NamesSorted[i]) \in dirs
         THEN <<NamesSorted[i]>> \o EntriesOf(path, dirs, i + 1)
    ELSE EntriesOf(path, dirs, i + 1)

ListStacksAnyBackend(cfg, st) ==
    [err |-> "",
     stacks |-> EntriesOf(ExpandPath(TrimPrefix(cfg.PulumiBackend, "file://")),
                          Directories(st), 1)]

ListStacks(cfg, st) ==
    IF HasPrefix(cfg.PulumiBackend, "file://")
    THEN [err |-> "",
          stacks |-> EntriesOf(ExpandPath(TrimPrefix(cfg.PulumiBackend, "file://")),
                               Directories(st), 1)]
    ELSE [err |-> "listing stacks only supported for file:// backend", stacks |-> <<>>]

----------------------------------------------------------------------------
(* getInstancesWithState: the instances of a profile, filtered by live state *)

\* the lifecycle states the provider reports for an instance
LifecycleStates == {"pending", "running", "stopped", "terminated"}

\* what AWSProvider.GetInstanceStatus can answer: a state, or an error
ProbeAnswers == LifecycleStates \cup {"error", "instance not found"}

\* whether the probed state matches the desired one
MatchEquality(desiredState, state) == desiredState = state

Match(desiredState, state) ==
    \/ desiredState = "running" /\ state = "running"
    \/ desiredState = "stopped" /\ state = "stopped"

\* the string a stack output holds, "" if it is absent
OutputString(outs, k) == Lookup(outs, k, "")

\* the call starts: the profile is loaded and the stacks listed; without a
\* desired state the list is the result, else one probe per stack is started
DiscStart(profileName, desiredState) ==
    LET profile == Profiles[profileName]
        listed == ListStacks(profile, stacks)
        names == SeqToSet(listed.stacks)
    IN  /\ disc.phase \in {"idle", "done"}
        /\ disc' = [phase |-> IF listed.err # "" \/ desiredState = ""
                              THEN "done" ELSE "probing",
                    cfgName |-> profileName,
                    filter |-> desiredState,
                    listed |-> listed.stacks,
                    noId |-> {n \in names :
                                OutputString(stacks[StackKey(profile, n)].outputs,
                                             "instanceID") = ""},
                    pending |-> IF listed.err # "" \/ desiredState = "" THEN {} ELSE names,
                    probed |-> EmptyMap,
                    waiting |-> {},
                    mu |-> "",
                    reads |-> EmptyMap,
                    candidates |-> <<>>,
                    result |-> IF listed.err = "" /\ desiredState = ""
                               THEN listed.stacks ELSE <<>>,
                    err |-> IF listed.err # "" THEN "failed to list instances" ELSE ""]
        /\ UNCHANGED <<stacks, cloud, ops, hist, latestAmi, nops, getRes, envCall, build, madeDirs, listRes, conf, confRes>>

\* the goroutine of one stack, from GetOutputs to the match: it returns
\* (wg.Done) unless the state matches, and then goes on to the append;
\* backendOk and answer are what the backend and the provider answer
Probe(name, backendOk, answer) ==
    LET profile == Profiles[disc.cfgName]
        res == GetOutputsOn(stacks, profile, name, backendOk)
        id == OutputString(res.outs, "instanceID")
        outcome == IF profile.Provider # "aws" THEN "unsupported provider"
                   ELSE IF res.err # "" THEN "no outputs"
                   ELSE IF id = "" THEN "no instance id"
                   ELSE answer
        match == outcome \in LifecycleStates /\ Match(disc.filter, outcome)
    IN  /\ disc.phase = "probing"
        /\ name \in disc.pending
        /\ name \notin DOMAIN disc.probed
        /\ stacks' = IF profile.Provider = "aws" THEN res.store ELSE stacks
        /\ disc' = [disc EXCEPT !.pending = IF match THEN @ ELSE @ \ {name},
                                !.probed = (name :> outcome) @@ @,
                                !.waiting = IF match THEN @ \cup {name} ELSE @]
        /\ UNCHANGED <<cloud, ops, hist, latestAmi, nops, getRes, envCall, build, madeDirs, listRes, conf, confRes>>

\* a mutex that never makes a goroutine wait
MutexNeverHeld(d) == TRUE

\* mu is not held
MutexFree(d) == d.mu = ""

\* mu.Lock() of the goroutine of a matching stack, and the read of the slice
\* that append starts with
ProbeLock(name) ==
    /\ disc.phase = "probing"
    /\ name \in disc.waiting
    /\ name \notin DOMAIN disc.reads
    /\ MutexFree(disc)
    /\ disc' = [disc EXCEPT !.mu = name, !.reads = (name :> disc.candidates) @@ @]
    /\ UNCHANGED <<stacks, cloud, ops, hist, latestAmi, nops, getRes, envCall, build, madeDirs, listRes, conf, confRes>>

\* candidates = append(candidates, name), mu.Unlock() and wg.Done()
ProbeAppend(name) ==
    /\ disc.phase = "probing"
    /\ name \in DOMAIN disc.reads
    /\ disc' = [disc EXCEPT !.candidates = Append(disc.reads[name], name),
                            !.mu = "",
                            !.reads = Without(@, name),
                            !.waiting = @ \ {name},
                            !.pending = @ \ {name}]
    /\ UNCHANGED <<stacks, cloud, ops, hist, latestAmi, nops, getRes, envCall, build, madeDirs, listRes, conf, confRes>>

\* wg.Wait returned: the candidates are the result
DiscWait ==
    /\ disc.phase = "probing"
    /\ disc.pending = {}
    /\ disc' = [disc EXCEPT !.phase = "done", !.result = disc.candidates]
    /\ UNCHANGED <<stacks, cloud, ops, hist, latestAmi, nops, getRes, envCall, build, madeDirs, listRes, conf, confRes>>

----------------------------------------------------------------------------
(* listInstance and FindInstancesUsingUserData *)

RECURSIVE UpsertAll(_, _, _)
\* the store after GetOutputs ran for the names of the sequence that the
\* backend answered for
UpsertAll(st, cfg, names) ==
    IF names = <<>> THEN st
    ELSE UpsertAll(UpsertStack(st, StackKey(cfg, Head(names))), cfg, Tail(names))

\* the table row of one instance: its outputs, then its live state
ListRow(st, cfg, name, backendOk, answer) ==
    LET res == GetOutputsOn(st, cfg, name, backendOk)
        id == OutputString(res.outs, "instanceID")
        profileName == OutputString(res.outs, "profileName")
    IN  IF res.err # ""
        THEN [name |-> name, profile |-> "", privateIP |-> "", publicIP |-> "",
              state |-> "Error: " \o res.err]
        ELSE [name |-> name,
              profile |-> IF profileName = "" THEN "Unknown" ELSE profileName,
              privateIP |-> OutputString(res.outs, "privateIP"),
              publicIP |-> OutputString(res.outs, "publicIP"),
              state |-> IF id = "" THEN "Provisioning/Error"
                        ELSE IF answer \in LifecycleStates THEN answer
                        ELSE "Error: " \o answer]

\* the rows of the table, in the order of the instances
ListRowsSkippingFailed(st, cfg, instances, oks, answers) ==
    IF cfg.Provider # "aws" THEN <<>>
    ELSE SelectSeq([i \in 1..Len(instances) |->
                       ListRow(st, cfg, instances[i], oks[instances[i]],
                               answers[instances[i]])],
                   LAMBDA r : r.state \in LifecycleStates)

ListRows(st, cfg, instances, oks, answers) ==
    IF cfg.Provider # "aws" THEN <<>>
    ELSE [i \in 1..Len(instances) |->
             ListRow(st, cfg, instances[i], oks[instances[i]], answers[instances[i]])]

\* how the probe of one instance by a listing command ends: the backend does
\* not answer, or the provider answers a state or an error
ListOutcomes == {"no outputs", "running", "error", "instance not found"}

\* the outcome of the probe of each listed instance: no outputs, no instance
\* id in them, or the provider's answer
ListProbed(st, cfg, instances, oks, answers) ==
    [n \in SeqToSet(instances) |->
        IF ~oks[n] THEN "no outputs"
        ELSE IF OutputString(GetOutputsOn(st, cfg, n, TRUE).outs, "instanceID") = ""
             THEN "no instance id"
        ELSE answers[n]]

\* the list command: of one named instance, or of every stack of the profile;
\* oks and answers are what the backend and the provider answer per name
ListInstance(profileName, nameArg, oks, answers) ==
    LET profile == Profiles[profileName]
        listed == IF nameArg # "" THEN [err |-> "", stacks |-> <<nameArg>>]
                  ELSE ListStacks(profile, stacks)
        answered == SelectSeq(listed.stacks, LAMBDA n : oks[n])
    IN  /\ nops < MaxOps
        /\ nops' = nops + 1
        /\ IF listed.err # ""
           THEN /\ listRes' = [called |-> TRUE, kind |-> "list", cfgName |-> profileName,
                               arg |-> nameArg, listed |-> <<>>, rows |-> <<>>,
                               names |-> <<>>, probed |-> EmptyMap,
                               err |-> "failed to list instances"]
                /\ UNCHANGED stacks
           ELSE /\ listRes' = [called |-> TRUE, kind |-> "list", cfgName |-> profileName,
                               arg |-> nameArg, listed |-> listed.stacks,
                               rows |-> ListRows(stacks, profile, listed.stacks, oks, answers),
                               names |-> <<>>,
                               probed |-> ListProbed(stacks, profile, listed.stacks,
                                                     oks, answers),
                               err |-> ""]
                /\ stacks' = IF profile.Provider = "aws"
                             THEN UpsertAll(stacks, profile, answered) ELSE stacks
        /\ UNCHANGED <<cloud, ops, hist, latestAmi, getRes, disc, envCall, build, madeDirs, conf, confRes>>

\* FindInstancesUsingUserData: the stacks of the profile whose userDataName
\* output is the given name; a stack whose outputs cannot be read is skipped
FindInstancesUsingUserData(profileName, userDataName, oks) ==
    LET profile == Profiles[profileName]
        listed == ListStacks(profile, stacks)
        answered == SelectSeq(listed.stacks, LAMBDA n : oks[n])
        matches == SelectSeq(answered,
                             LAMBDA n : LET outs == GetOutputsOn(stacks, profile, n, TRUE).outs
                                        IN  /\ "userDataName" \in DOMAIN outs
                                            /\ outs["userDataName"] = userDataName)
    IN  /\ nops < MaxOps
        /\ nops' = nops + 1
        /\ listRes' = [called |-> TRUE, kind |-> "find", cfgName |-> profileName,
                       arg |-> userDataName, listed |-> listed.stacks, rows |-> <<>>,
                       names |-> IF listed.err # "" THEN <<>> ELSE matches,
                       probed |-> [n \in SeqToSet(listed.stacks) |->
                                     IF oks[n] THEN "read" ELSE "no outputs"],
                       err |-> listed.err]
        /\ stacks' = IF listed.err # "" THEN stacks
                     ELSE UpsertAll(stacks, profile, answered)
        /\ UNCHANGED <<cloud, ops, hist, latestAmi, getRes, disc, envCall, build, madeDirs, conf, confRes>>

----------------------------------------------------------------------------
(* the environment *)

\* a directory is made under the root of a file backend outside any stack
\* (by hand, or left behind empty)
MakeDir(profileName, name) ==
    LET backend == Profiles[profileName].PulumiBackend
    IN  /\ HasPrefix(backend, "file://")
        /\ madeDirs' = madeDirs \cup
                          {ExpandPath(TrimPrefix(backend, "file://")) \o "/" \o name}
        /\ UNCHANGED <<stacks, cloud, ops, hist, latestAmi, nops, getRes, disc, envCall,
                       build, listRes, conf, confRes>>

\* a newer image is published: the most-recent lookup resolves to it from now on
PublishAmi ==
    /\ \E i \in 1..(Len(Amis) - 1) : latestAmi = Amis[i] /\ latestAmi' = Amis[i + 1]
    /\ UNCHANGED <<stacks, cloud, ops, hist, nops, getRes, disc, envCall, build, madeDirs, listRes, conf, confRes>>

----------------------------------------------------------------------------
(* the configuration: Loader.Save, Loader.Load and the config command *)

\* Loader.Save of an AppConfig
SaveConfig(cfg) ==
    /\ conf' = Save(conf, cfg)
    /\ confRes' = [called |-> TRUE, kind |-> "save", cfg |-> cfg, err |-> ""]
    /\ UNCHANGED <<stacks, cloud, ops, hist, latestAmi, nops, getRes, disc, envCall,
                   build, madeDirs, listRes>>

\* Loader.Load; the result remembers the AppConfig of a Save made just before
LoadConfig ==
    LET loaded == Load(conf)
    IN  /\ confRes' = [called |-> TRUE, kind |-> "load",
                       saved |-> IF confRes.called /\ confRes.kind = "save"
                                 THEN {confRes.cfg} ELSE {},
                       files |-> conf, err |-> loaded.err, cfg |-> loaded.cfg]
        /\ UNCHANGED <<stacks, cloud, ops, hist, latestAmi, nops, getRes, disc, envCall,
                       build, madeDirs, listRes, conf>>

\* config use without the check that the profile exists
ConfigUseUnchecked(files, name) ==
    IF name = "" THEN [err |-> "profile name required", files |-> files]
    ELSE IF Load(files).err # "" THEN [err |-> "failed to load config", files |-> files]
    ELSE [err |-> "",
          files |-> Save(files, [Load(files).cfg EXCEPT !.CurrentProfile = name])]

\* config use <name>: the profile must exist; it becomes the current one
ConfigUseOn(files, name) ==
    IF name = "" THEN [err |-> "profile name required", files |-> files]
    ELSE IF Load(files).err # "" THEN [err |-> "failed to load config", files |-> files]
    ELSE IF name \notin DOMAIN Load(files).cfg.Profiles
         THEN [err |-> "profile does not exist", files |-> files]
    ELSE [err |-> "",
          files |-> Save(files, [Load(files).cfg EXCEPT !.CurrentProfile = name])]

\* config new <name>: the name must be free; the new profile is the default
\* one, and it becomes current when there is no current profile
ConfigNewOn(files, name) ==
    LET cfg == Load(files).cfg
        added == [cfg EXCEPT !.Profiles = (name :> DefaultProfile) @@ cfg.Profiles]
    IN  IF name = "" THEN [err |-> "profile name required", files |-> files]
        ELSE IF Load(files).err # "" THEN [err |-> "failed to load config", files |-> files]
        ELSE IF name \in DOMAIN cfg.Profiles
             THEN [err |-> "profile already exists", files |-> files]
        ELSE [err |-> "",
              files |-> Save(files, IF cfg.CurrentProfile = ""
                                    THEN [added EXCEPT !.CurrentProfile = name]
                                    ELSE added)]

ConfigUse(name) ==
    LET r == ConfigUseOn(conf, name)
    IN  /\ conf' = r.files
        /\ confRes' = [called |-> TRUE, kind |-> "use", name |-> name, err |-> r.err]
        /\ UNCHANGED <<stacks, cloud, ops, hist, latestAmi, nops, getRes, disc, envCall,
                       build, madeDirs, listRes>>

ConfigNew(name) ==
    LET r == ConfigNewOn(conf, name)
    IN  /\ conf' = r.files
        /\ confRes' = [called |-> TRUE, kind |-> "new", name |-> name, err |-> r.err]
        /\ UNCHANGED <<stacks, cloud, ops, hist, latestAmi, nops, getRes, disc, envCall,
                       build, madeDirs, listRes>>

----------------------------------------------------------------------------
(* the userdata command and userdata.Manager *)

\* Manager.Create: the name must be free; the script is stored in the config
ManagerCreate(files, name, content) ==
    LET cfg == Load(files).cfg
    IN  IF Load(files).err # "" THEN [err |-> "failed to load config", files |-> files]
        ELSE IF name \in DOMAIN cfg.UserData
             THEN [err |-> "userdata script already exists", files |-> files]
        ELSE [err |-> "",
              files |-> Save(files, [cfg EXCEPT !.UserData = (name :> content) @@ @])]

\* Manager.Delete: the script must be stored; it is removed from the config
ManagerDelete(files, name) ==
    LET cfg == Load(files).cfg
    IN  IF Load(files).err # "" THEN [err |-> "failed to load config", files |-> files]
        ELSE IF name \notin DOMAIN cfg.UserData
             THEN [err |-> "userdata script not found", files |-> files]
        ELSE [err |-> "",
              files |-> Save(files, [cfg EXCEPT !.UserData = Without(@, name)])]

\* userdata create <name>: the content comes from a file or from stdin and
\* must not be empty
UserDataCreate(name, content) ==
    LET r == IF name = "" THEN [err |-> "name is required", files |-> conf]
             ELSE IF content = "" THEN [err |-> "content is empty", files |-> conf]
             ELSE ManagerCreate(conf, name, content)
    IN  /\ conf' = r.files
        /\ confRes' = [called |-> TRUE, kind |-> "userdata create", name |-> name,
                       err |-> r.err]
        /\ UNCHANGED <<stacks, cloud, ops, hist, latestAmi, nops, getRes, disc, envCall,
                       build, madeDirs, listRes>>

\* the profile appCfg.Profiles[appCfg.CurrentProfile]: the zero profile when
\* the current profile is not among the profiles
CurrentProfileOf(cfg) ==
    IF cfg.CurrentProfile \in DOMAIN cfg.Profiles
    THEN cfg.Profiles[cfg.CurrentProfile]
    ELSE [Provider |-> "", PulumiBackend |-> "", Region |-> "", SSHPublicKey |-> "",
          ConnectCommand |-> "", UserData |-> "", Env |-> EmptyMap, AWS |-> ZeroAWS]

\* the instances FindInstancesUsingUserData returns for the profile: the
\* listed stacks whose outputs could be read and name the script
InstancesUsing(st, profile, userDataName, oks) ==
    SelectSeq(ListStacks(profile, st).stacks,
              LAMBDA n : /\ oks[n]
                         /\ OutputString(GetOutputsOn(st, profile, n, TRUE).outs,
                                         "userDataName") = userDataName)

\* userdata delete <name>: refused while an instance of the current profile
\* uses the script; oks tells for each stack whether its outputs can be read
UserDataDelete(name, oks) ==
    LET loaded == Load(conf)
        profile == CurrentProfileOf(loaded.cfg)
        listed == ListStacks(profile, stacks)
        using == InstancesUsing(stacks, profile, name, oks)
        searched == name # "" /\ loaded.err = "" /\ listed.err = ""
        r == IF name = "" THEN [err |-> "name is required", files |-> conf]
             ELSE IF loaded.err # "" THEN [err |-> "failed to load config", files |-> conf]
             ELSE IF listed.err # ""
                  THEN [err |-> "failed to check instances usage", files |-> conf]
             ELSE IF using # <<>>
                  THEN [err |-> "cannot delete user-data: used by instances",
                        files |-> conf]
             ELSE ManagerDelete(conf, name)
    IN  /\ conf' = r.files
        /\ stacks' = IF searched
                     THEN UpsertAll(stacks, profile,
                                    SelectSeq(listed.stacks, LAMBDA n : oks[n]))
                     ELSE stacks
        /\ confRes' = [called |-> TRUE, kind |-> "userdata delete", name |-> name,
                       err |-> r.err]
        /\ UNCHANGED <<cloud, ops, hist, latestAmi, nops, getRes, disc, envCall,
                       build, madeDirs, listRes>>

----------------------------------------------------------------------------
(* specifications *)

Init ==
    /\ stacks = EmptyMap
    /\ cloud = {}
    /\ ops = [n \in Names |-> Idle]
    /\ hist = [n \in Names |-> <<>>]
    /\ latestAmi = Amis[1]
    /\ nops = 0
    /\ getRes = NoResult
    /\ disc = [phase |-> "idle"]
    /\ envCall = NoCall
    /\ build = NoCall
    /\ madeDirs = {}
    /\ listRes = NoCall
    /\ conf = Save(NoFiles, InitialConfig)
    /\ confRes = NoCall

\* no command is in flight
Quiet == \A n \in Names : ops[n].kind = "idle"

\* the commands of the instance lifecycle, one command at a time: create with
\* and without a stored boot script, destroy and outputs on every name and
\* profile
Next ==
    \/ \E n \in Names, u \in {"", "bootstrap"} : Quiet /\ CreateInstance(n, "default", u, "")
    \/ \E n \in Names : Quiet /\ CreateInstance(n, "work", "", "")
    \/ \E n \in Names, ok \in BOOLEAN : UpStep(n, ok)
    \/ \E n \in Names : UpFinish(n)
    \/ \E n \in Names, p \in ProfileNames : Quiet /\ DestroyInstance(n, p)
    \/ \E n \in Names, ok \in BOOLEAN : DestroyStep(n, ok)
    \/ \E n \in Names : DestroyFinish(n)
    \/ \E n \in Names, p \in ProfileNames : Quiet /\ GetOutputs(n, p, TRUE)
    \/ Quiet /\ PublishAmi

Spec == Init /\ [][Next]_vars

\* discovery over the instances of the default profile: instances are
\* created, destroyed and read one command at a time, and between commands
\* getInstancesWithState runs with any desired state
NextDisc ==
    \/ \E n \in Names : Quiet /\ disc.phase # "probing" /\ CreateInstance(n, "default", "", "")
    \/ \E n \in Names, ok \in BOOLEAN : UpStep(n, ok)
    \/ \E n \in Names : UpFinish(n)
    \/ \E n \in Names : Quiet /\ disc.phase # "probing" /\ DestroyInstance(n, "default")
    \/ \E n \in Names : DestroyStep(n, TRUE)
    \/ \E n \in Names : DestroyFinish(n)
    \/ \E p \in ProfileNames, f \in LifecycleStates \cup {""} : Quiet /\ DiscStart(p, f)
    \/ \E n \in Names, ok \in BOOLEAN, a \in ProbeAnswers : Probe(n, ok, a)
    \/ \E n \in Names : ProbeLock(n)
    \/ \E n \in Names : ProbeAppend(n)
    \/ DiscWait

SpecDisc == Init /\ [][NextDisc]_vars

\* filtered discovery over created instances: the probe goroutines of the
\* listed stacks run in any interleaving, any of them failing
NextProbe ==
    \/ \E n \in Names : Quiet /\ disc.phase # "probing" /\ CreateInstance(n, "default", "", "")
    \/ \E n \in Names : UpStep(n, TRUE)
    \/ \E n \in Names : UpFinish(n)
    \/ \E f \in LifecycleStates : Quiet /\ DiscStart("default", f)
    \/ \E n \in Names, ok \in BOOLEAN, a \in ProbeAnswers : Probe(n, ok, a)
    \/ \E n \in Names : ProbeLock(n)
    \/ \E n \in Names : ProbeAppend(n)
    \/ DiscWait

SpecProbe == Init /\ [][NextProbe]_vars

\* getEnv on its own, over backends of every scheme
NextEnv ==
    \E b \in EnvBackends, n \in EnvNames, r \in EnvRegions, a \in EnvAwsProfiles :
        CallGetEnv(b, n, r, a)

SpecEnv == Init /\ [][NextEnv]_vars

\* two or more creates under the default profile with their Ups running
\* concurrently: the steps of the Ups interleave in any order, and every
\* provider call succeeds
NextConc ==
    \/ \E n \in Names : CreateInstance(n, "default", "", "")
    \/ \E n \in Names : UpStep(n, TRUE)
    \/ \E n \in Names : UpFinish(n)

SpecConc == Init /\ [][NextConc]_vars

\* the provider's program on its own, over every profile and spec
NextBuild ==
    \E p \in DOMAIN Profiles, n \in SpecNames, u \in SpecScripts, t \in SpecTags :
        CallProgram(p, n, u, t)

SpecBuild == Init /\ [][NextBuild]_vars

\* the create command with its flags: the profile, --user-data and --type
CreateFlags ==
    {<<"default", "", "">>, <<"default", "", "c5.large">>,
     <<"laptop", "", "">>,
     <<"docker-host", "", "">>, <<"docker-host", "./setup.sh", "">>,
     <<"work", "bootstrap", "c5.large">>}

\* creates with every combination of flags above, one command at a time,
\* every provider call succeeding
NextCreate ==
    \/ \E n \in Names, f \in CreateFlags : Quiet /\ CreateInstance(n, f[1], f[2], f[3])
    \/ \E n \in Names : UpStep(n, TRUE)
    \/ \E n \in Names : UpFinish(n)

SpecCreate == Init /\ [][NextCreate]_vars

\* the listing commands between creates: list (one instance or all), the
\* user-data usage search and instance selection, on file and remote
\* backends, with directories made under the default root
NextList ==
    \/ \E n \in Names, p \in ProfileNames : Quiet /\ CreateInstance(n, p, "", "")
    \/ \E n \in Names : UpStep(n, TRUE)
    \/ \E n \in Names : UpFinish(n)
    \/ \E n \in Names : Quiet /\ MakeDir("default", n)
    \/ \E p \in ProfileNames, a \in Names \cup {""}, outcome \in [Names -> ListOutcomes] :
            Quiet /\ ListInstance(p, a, [n \in Names |-> outcome[n] # "no outputs"], outcome)
    \/ \E p \in ProfileNames, u \in DOMAIN StoredUserData, oks \in [Names -> BOOLEAN] :
            Quiet /\ FindInstancesUsingUserData(p, u, oks)
    \/ \E f \in {"", "running"} : Quiet /\ DiscStart("work", f)

SpecList == Init /\ [][NextList]_vars

\* creates under every kind of provider configuration (with and without a
\* key, with and without an image override), any provider call failing, and
\* newer images being published
GraphProfiles == {"default", "work", "docker-host", "pinned"}

\* one instance name is enough for the graph of one instance
GraphNames == {"dev1"}

NextGraph ==
    \/ \E n \in GraphNames, p \in GraphProfiles : Quiet /\ CreateInstance(n, p, "", "")
    \/ \E n \in GraphNames, ok \in BOOLEAN : UpStep(n, ok)
    \/ \E n \in GraphNames : UpFinish(n)
    \/ Quiet /\ PublishAmi

SpecGraph == Init /\ [][NextGraph]_vars

\* create, destroy and outputs under file backends whose root is written
\* with a leading ~/, with a trailing slash, with both, and as ~ alone
FileProfiles == {"default", "laptop", "pinned", "home"}

NextPart ==
    \/ \E n \in Names, p \in FileProfiles : Quiet /\ CreateInstance(n, p, "", "")
    \/ \E n \in Names : UpStep(n, TRUE)
    \/ \E n \in Names : UpFinish(n)
    \/ \E n \in Names, p \in FileProfiles : Quiet /\ DestroyInstance(n, p)
    \/ \E n \in Names : DestroyStep(n, TRUE)
    \/ \E n \in Names : DestroyFinish(n)
    \/ \E n \in Names, p \in FileProfiles : Quiet /\ GetOutputs(n, p, TRUE)

SpecPart == Init /\ [][NextPart]_vars

\* instances created with and without a stored script and destroyed under
\* the current profile, scripts stored and deleted in between; a read of a
\* stack's outputs may fail during the usage search
ScriptNames == {"", "bootstrap", "setup"}

ScriptContents == {"", "#!/bin/sh\necho setup"}

NextUserData ==
    \/ \E n \in Names, u \in ScriptNames : Quiet /\ CreateInstance(n, "default", u, "")
    \/ \E n \in Names : UpStep(n, TRUE)
    \/ \E n \in Names : UpFinish(n)
    \/ \E n \in Names : Quiet /\ DestroyInstance(n, "default")
    \/ \E n \in Names : DestroyStep(n, TRUE)
    \/ \E n \in Names : DestroyFinish(n)
    \/ \E u \in ScriptNames, c \in ScriptContents : Quiet /\ UserDataCreate(u, c)
    \/ \E u \in ScriptNames, oks \in [Names -> BOOLEAN] : Quiet /\ UserDataDelete(u, oks)

SpecUserData == Init /\ [][NextUserData]_vars

\* the instance state of Init, without a configuration directory yet
InitInstances ==
    /\ stacks = EmptyMap
    /\ cloud = {}
    /\ ops = [n \in Names |-> Idle]
    /\ hist = [n \in Names |-> <<>>]
    /\ latestAmi = Amis[1]
    /\ nops = 0
    /\ getRes = NoResult
    /\ disc = [phase |-> "idle"]
    /\ envCall = NoCall
    /\ build = NoCall
    /\ madeDirs = {}
    /\ listRes = NoCall
    /\ confRes = NoCall

\* profiles an AppConfig may hold: the default one, with and without
\* environment variables and a boot script, and the zero profile
ProfileValues ==
    {DefaultProfile,
     [DefaultProfile EXCEPT !.Env = ("FOO" :> "bar") @@ ("BAZ" :> "qux")],
     [DefaultProfile EXCEPT !.UserData = "bootstrap", !.Env = ("FOO" :> "")],
     [Provider |-> "", PulumiBackend |-> "", Region |-> "", SSHPublicKey |-> "",
      ConnectCommand |-> "", UserData |-> "", Env |-> EmptyMap, AWS |-> ZeroAWS]}

ProfileMaps ==
    UNION {[S -> ProfileValues] : S \in SUBSET {"default", "work"}}

\* the AppConfigs saved: with no profile, with a current profile that is not
\* among the profiles, with and without stored scripts
AppConfigs ==
    [CurrentProfile : {"", "default", "gone"}, Profiles : ProfileMaps,
     UserData : {EmptyMap, StoredUserData}]

\* the configuration directories Load may find: nothing, a legacy
\* config.json (single profile, AppConfig, or without a provider), a
\* config.yaml without profiles, files that do not parse
ConfigDirs ==
    {NoFiles,
     [NoFiles EXCEPT !.json = {MarshalProfile(DefaultProfile)}],
     [NoFiles EXCEPT !.json = {[region |-> "us-east-1"]}],
     [NoFiles EXCEPT !.json = {Marshal(InitialConfig)}],
     [NoFiles EXCEPT !.json = {Unparsable}],
     [NoFiles EXCEPT !.yaml = {[current_profile |-> "default"]}],
     [NoFiles EXCEPT !.yaml = {Unparsable}]}

InitRoundTrip == InitInstances /\ conf \in ConfigDirs

NextRoundTrip ==
    \/ \E cfg \in AppConfigs : SaveConfig(cfg)
    \/ LoadConfig

SpecRoundTrip == InitRoundTrip /\ [][NextRoundTrip]_vars

\* config new and config use, from an empty configuration directory
ConfigNames == {"", "default", "work", "lab", "old"}

InitConfig == InitInstances /\ conf = NoFiles

NextConfig ==
    \/ \E n \in ConfigNames : ConfigNew(n)
    \/ \E n \in ConfigNames : ConfigUse(n)

SpecConfig == InitConfig /\ [][NextConfig]_vars

----------------------------------------------------------------------------
(* properties *)

\* the deployment record Outputs/Get reads for a name under a profile: the
\* stack record, if there is one
DeploymentRecord(st, profileName, name) ==
    LET key == StackKey(Profiles[profileName], name)
    IN  IF key \in DOMAIN st THEN {st[key]} ELSE {}

Records(st, name) == [p \in ProfileNames |-> DeploymentRecord(st, p, name)]

\* the step is a step of a command on the instance name
OperatesOn(name) ==
    \/ ops'[name] # ops[name]
    \/ getRes' # getRes /\ getRes'.name = name

SuccessfulUp(s) == s.kind = "up" /\ s.ok

ProgramUrns(profileName, spec) ==
    LET prog == Program(ProviderCfg(profileName), spec)
    IN  {prog[i].urn : i \in {j \in 1..Len(prog) : prog[j].kind = "resource"}}

\* C1: isolation. A step of a command on instance b (Up, Destroy, Outputs)
\* leaves the deployment record of every other instance a as it was, under
\* every profile.
C1_Isolation ==
    [][\A a, b \in Names :
          a # b /\ OperatesOn(b) /\ ~OperatesOn(a)
              => Records(stacks', a) = Records(stacks, a)]_vars

\* C1 witness: Up(a) succeeded, then Up(b) succeeded, and the record of a is
\* still the one its own Up left, with its instance id.
C1_Witness ==
    \E a, b \in Names :
        /\ a # b
        /\ hist[a] # <<>> /\ SuccessfulUp(Head(hist[a]))
        /\ hist[b] # <<>> /\ SuccessfulUp(Head(hist[b]))
        /\ Head(hist[a]).at < Head(hist[b]).at
        /\ stacks[Head(hist[a]).key] = Head(hist[a]).post
        /\ "instanceID" \in DOMAIN stacks[Head(hist[a]).key].outputs

\* the backend url C2 states: the root without a trailing "/", then "/" and
\* the name, for a file:// root; the root itself otherwise
ExpectedBackend(backend, name) ==
    IF HasPrefix(backend, "file://")
    THEN (IF HasSuffix(backend, "/") THEN SubSeq(backend, 1, Len(backend) - 1)
          ELSE backend) \o "/" \o name
    ELSE backend

\* C2: getEnv sets PULUMI_BACKEND_URL to root + "/" + name for a file:// root,
\* with one "/" whether or not the root ends with one, and to the root
\* unchanged for any other scheme; the passphrase is empty and AWS_REGION is
\* the profile's region.
C2_GetEnvBackend ==
    envCall.called =>
        /\ envCall.env["PULUMI_BACKEND_URL"] = ExpectedBackend(envCall.backend, envCall.name)
        /\ envCall.env["PULUMI_CONFIG_PASSPHRASE"] = ""
        /\ envCall.env["AWS_REGION"] = envCall.region

\* C2 witness: the call of the test table with a trailing slash.
C2_Witness ==
    /\ envCall.called
    /\ envCall.backend = "file:///tmp/state/"
    /\ envCall.name = "dev2"
    /\ envCall.env["PULUMI_BACKEND_URL"] = "file:///tmp/state/dev2"

\* the last two commands on the name were successful Ups of one spec under
\* one profile
UpTwice(n) ==
    /\ Len(hist[n]) = 2
    /\ SuccessfulUp(hist[n][1]) /\ SuccessfulUp(hist[n][2])
    /\ hist[n][1].cfgName = hist[n][2].cfgName
    /\ hist[n][1].spec = hist[n][2].spec

SecondUpChangesNothing(n) ==
    /\ hist[n][1].created = {}
    /\ hist[n][1].replaced = {}
    /\ hist[n][1].post = hist[n][2].post

\* C3 as stated: Up twice with an unchanged spec and profile leaves the same
\* deployment state, and the second call creates or replaces nothing.
C3_UpTwiceIdempotent == \A n \in Names : UpTwice(n) => SecondUpChangesNothing(n)

\* C3, amended: the same, when both calls resolve the same image id (an
\* aws.ami override, or a most-recent lookup that answers the same image).
C3_UpTwiceSameImageIdempotent ==
    \A n \in Names :
        UpTwice(n) /\ hist[n][1].ami = hist[n][2].ami => SecondUpChangesNothing(n)

\* C3 witness: two successful Ups of one spec that looked the image up and
\* got the same one; the instance of the first is the instance of the second.
C3_Witness ==
    \E n \in Names :
        /\ UpTwice(n)
        /\ Profiles[hist[n][1].cfgName].AWS.AMI = ""
        /\ hist[n][1].ami = hist[n][2].ami
        /\ hist[n][2].created # {}
        /\ "instanceID" \in DOMAIN hist[n][1].post.outputs

\* the last command on the name was a successful Destroy, under its profile,
\* of a deployment that had realized resources
Destroyed(n) ==
    /\ hist[n] # <<>>
    /\ Head(hist[n]).kind = "destroy" /\ Head(hist[n]).ok
    /\ Head(hist[n]).removed # {}
    /\ ops[n].kind = "idle"

\* C4: after a successful Destroy of a deployed instance, Outputs answers
\* NotProvisioned, the deployment record is gone and List() no longer
\* returns the name.
C4_DestroyThenNotProvisioned ==
    \A n \in Names :
        Destroyed(n)
        => LET profile == Profiles[Head(hist[n]).cfgName]
           IN  /\ GetOutputsOn(stacks, profile, n, TRUE).err = "NotProvisioned"
               /\ Head(hist[n]).key \notin DOMAIN stacks
               /\ n \notin SeqToSet(ListStacks(profile, stacks).stacks)

\* C5: Outputs for a name that has no deployment record fails with
\* NotProvisioned.
C5_OutputsNeverProvisioned ==
    (getRes.called /\ ~getRes.existed) => getRes.err = "NotProvisioned"

\* the last two commands on the name: an Up that failed, then an Up of the
\* same spec under the same profile
ResumedUp(n) ==
    /\ Len(hist[n]) = 2
    /\ hist[n][2].kind = "up" /\ ~hist[n][2].ok
    /\ hist[n][1].kind = "up"
    /\ hist[n][1].cfgName = hist[n][2].cfgName
    /\ hist[n][1].spec = hist[n][2].spec

\* C6: an Up that fails after creating some nodes leaves exactly those nodes
\* (and what was there before) recorded; the next Up of the same spec creates
\* or replaces none of them, and when it succeeds it has created exactly the
\* nodes of the graph that were missing.
C6_PartialFailureResumes ==
    \A n \in Names :
        /\ \A i \in 1..Len(hist[n]) :
              (hist[n][i].kind = "up" /\ ~hist[n][i].ok)
                  => /\ Urns(hist[n][i].post) = Urns(hist[n][i].pre) \cup hist[n][i].created
                     /\ hist[n][i].created \cap Urns(hist[n][i].pre) = {}
        /\ ResumedUp(n)
              => /\ hist[n][1].created \cap Urns(hist[n][2].post) = {}
                 /\ hist[n][1].replaced \cap hist[n][2].created = {}
                 /\ hist[n][1].ok
                       => hist[n][1].created =
                            ProgramUrns(hist[n][1].cfgName, hist[n][1].spec)
                                \ Urns(hist[n][2].post)

\* C6 witness: an Up failed after creating at least one node, and the next
\* Up of the same spec succeeded, creating the rest.
C6_Witness ==
    \E n \in Names :
        /\ ResumedUp(n)
        /\ hist[n][2].created # {}
        /\ hist[n][1].ok
        /\ hist[n][1].created # {}
        /\ Urns(hist[n][1].post) = hist[n][2].created \cup hist[n][1].created

\* C7: a realized resource that has not been removed is tracked by an existing
\* deployment record, in every state; and a Destroy that failed left the
\* record with every resource it did not remove.
C7_NoOrphanAfterFailedDestroy ==
    /\ \A r \in cloud :
          /\ r[1] \in DOMAIN stacks
          /\ \E i \in 1..Len(stacks[r[1]].resources) :
                /\ stacks[r[1]].resources[i].urn = r[2]
                /\ stacks[r[1]].resources[i].id = r[3]
    /\ \A n \in Names : \A i \in 1..Len(hist[n]) :
          (hist[n][i].kind = "destroy" /\ ~hist[n][i].ok)
              => /\ Urns(hist[n][i].post) = Urns(hist[n][i].pre) \ hist[n][i].removed
                 /\ Urns(hist[n][i].post) # {}

\* C7 witness: a Destroy failed part way; what it did not remove is still
\* realized and still in the record.
C7_Witness ==
    \E n \in Names :
        /\ hist[n] # <<>>
        /\ Head(hist[n]).kind = "destroy" /\ ~Head(hist[n]).ok
        /\ Head(hist[n]).removed # {}
        /\ ops[n].kind = "idle"
        /\ \E r \in cloud : r[1] = Head(hist[n]).key
        /\ Head(hist[n]).key \in DOMAIN stacks

\* C8: create on a name that has a deployment with a realized instance is
\* rejected (Conflict): no Up ever starts, or completes, on such a record.
C8_CreateOnExistingRejected ==
    \A n \in Names :
        /\ ops[n].kind = "up" => "instanceID" \notin DOMAIN ops[n].pre.outputs
        /\ \A i \in 1..Len(hist[n]) :
              hist[n][i].kind = "up" => "instanceID" \notin DOMAIN hist[n][i].pre.outputs

\* the instance failed its probe: with a desired state, the probe's outcome is
\* not a lifecycle state; without one, its record held no resource id when
\* the stacks were listed
FailedProbe(n) ==
    IF disc.filter = "" THEN n \in disc.noId
    ELSE disc.probed[n] \notin LifecycleStates

\* C9: discovery returns no error because of a probe, returns no instance
\* that failed its probe and, without a desired state, returns exactly the
\* listed instances that did not fail.
C9_DiscoveryExcludesFailedProbes ==
    (disc.phase = "done" /\ Profiles[disc.cfgName].Provider = "aws"
        /\ HasPrefix(Profiles[disc.cfgName].PulumiBackend, "file://"))
    => /\ disc.err = ""
       /\ \A n \in SeqToSet(disc.result) : ~FailedProbe(n)
       /\ disc.filter = ""
             => SeqToSet(disc.result) = {n \in SeqToSet(disc.listed) : ~FailedProbe(n)}

\* C10: with a desired state, discovery returns exactly the instances whose
\* probed lifecycle state equals it, whatever the desired state is.
C10_FilterIsEquality ==
    (disc.phase = "done" /\ disc.err = "" /\ disc.filter # "")
    => SeqToSet(disc.result) =
          {n \in SeqToSet(disc.listed) : MatchEquality(disc.filter, disc.probed[n])}

\* the state partition of instance n under the default profile's root
PartitionOf(n) == Profiles["default"].PulumiBackend \o "/" \o n

\* the stack keys whose record the step creates or changes
WrittenKeys ==
    {k \in DOMAIN stacks' : k \notin DOMAIN stacks \/ stacks'[k] # stacks[k]}
    \cup (DOMAIN stacks \ DOMAIN stacks')

\* C11: with Ups on distinct names running concurrently under one file://
\* root, every step of the Up on n writes only records and resources of the
\* partition root/n, and every Up that returns has succeeded with its instance
\* recorded in its own partition.
C11_ConcurrentUpsIndependent ==
    /\ [][\A n \in Names :
             ops'[n] # ops[n]
                 => /\ \A k \in WrittenKeys : k = <<PartitionOf(n), n>>
                    /\ \A r \in (cloud' \ cloud) \cup (cloud \ cloud') :
                          r[1] = <<PartitionOf(n), n>>]_vars
    /\ [](\A n \in Names :
             hist[n] # <<>>
                 => /\ Head(hist[n]).ok
                    /\ Head(hist[n]).key = <<PartitionOf(n), n>>
                    /\ "instanceID" \in DOMAIN stacks[<<PartitionOf(n), n>>].outputs)

\* C11 witness: the Ups of dev1 and dev2 are both in flight, each having
\* created resources, while neither has returned.
C11_Witness ==
    /\ ops["dev1"].kind = "up" /\ ops["dev1"].created # {}
    /\ ops["dev2"].kind = "up" /\ ops["dev2"].created # {}
    /\ stacks[<<PartitionOf("dev1"), "dev1">>].resources # <<>>
    /\ stacks[<<PartitionOf("dev2"), "dev2">>].resources # <<>>

\* C12: whatever tags the caller supplies, the Name tag of the compute
\* instance is the instance name.
C12_NameTagReserved ==
    build.called => \A i \in build.instance : i.Tags["Name"] = build.spec.Name

\* C13: the instance carries a UserDataName tag, and a non-empty userDataName
\* output, only when the spec names a stored boot script, whatever the
\* caller-supplied tags are.
C13_UserDataNameOnlyWhenNamed ==
    (build.called /\ build.spec.UserDataName = "")
        => /\ \A i \in build.instance : "UserDataName" \notin DOMAIN i.Tags
           /\ Lookup(build.exports, "userDataName", "") = ""

\* C15: the program of a spec with an empty name fails with BuildError and
\* registers no resource node.
C15_EmptyNameFailsBuild ==
    (build.called /\ build.spec.Name = "")
        => build.err = "BuildError" /\ build.nodes = <<>>

\* the inputs the compute instance of a completed Up was realized with
InstanceInputs(h) ==
    ResourceOf(h.post, <<"aws:ec2/instance:Instance", h.spec.Name>>).inputs

\* C14: an Up under a profile whose configured SSH public key file is
\* unreadable fails having created no resource, with the resources and
\* outputs of the deployment left as they were.
C14_UnreadableKeyFailsBeforeRealization ==
    \A n \in Names : \A i \in 1..Len(hist[n]) :
        LET h == hist[n][i]
            path == Profiles[h.cfgName].SSHPublicKey
        IN  (h.kind = "up" /\ path # "" /\ ~readPublicKey(path).ok)
                => /\ ~h.ok
                   /\ h.created = {}
                   /\ h.post.resources = h.pre.resources
                   /\ h.post.outputs = h.pre.outputs

\* C16: the instance of a successful create has the instance type of the
\* spec (the --type given, else the profile's), and t3.micro when that is
\* empty.
C16_TypeFlagOverridesProfile ==
    \A n \in Names : \A i \in 1..Len(hist[n]) :
        LET h == hist[n][i]
        IN  SuccessfulUp(h)
                => InstanceInputs(h).InstanceType =
                      (IF h.spec.Type # "" THEN h.spec.Type ELSE "t3.micro")

\* C17: the boot script of the instance of a successful create is the
\* script given with --user-data, and the profile's user_data when none was
\* given (the spec carries no script exactly then: every stored and ad hoc
\* script is non-empty).
C17_ProfileUserDataIsDefault ==
    \A n \in Names : \A i \in 1..Len(hist[n]) :
        LET h == hist[n][i]
        IN  SuccessfulUp(h)
                => InstanceInputs(h).UserData =
                      (IF h.spec.UserData # "" THEN h.spec.UserData
                       ELSE Profiles[h.cfgName].UserData)

FileBackend(profileName) == HasPrefix(Profiles[profileName].PulumiBackend, "file://")

\* C18: List() returns no name of a partition without deployment data: every
\* name ListStacks returns for a file backend has a stack in its directory.
C18_ListExcludesEmptyPartitions ==
    \A p \in ProfileNames :
        FileBackend(p)
            => \A n \in SeqToSet(ListStacks(Profiles[p], stacks).stacks) :
                  StackKey(Profiles[p], n) \in DOMAIN stacks

\* C19: on a backend that is not file://, ListStacks returns an error and no
\* names on every store; list-all, the user-data usage search and instance
\* selection return that error with no rows and no names; and the step that
\* reports it changes neither the store nor the realized resources.
C19_UnsupportedBackendReported ==
    /\ [](\A p \in ProfileNames :
             ~FileBackend(p)
                 => /\ ListStacks(Profiles[p], stacks).err # ""
                    /\ ListStacks(Profiles[p], stacks).stacks = <<>>)
    /\ []((listRes.called /\ ~FileBackend(listRes.cfgName)
               /\ (listRes.kind = "list" => listRes.arg = ""))
            => /\ listRes.err # ""
               /\ listRes.rows = <<>>
               /\ listRes.names = <<>>)
    /\ []((disc.phase = "done" /\ ~FileBackend(disc.cfgName))
            => disc.err # "" /\ disc.result = <<>>)
    /\ [][((listRes' # listRes /\ listRes'.err # "") \/ (disc' # disc /\ disc'.err # ""))
            => /\ stacks' = stacks
               /\ cloud' = cloud
               /\ madeDirs' = madeDirs]_vars

\* C19 witness: list-all under the remote-backend profile reported the error
\* while an instance deployed under that profile exists.
C19_Witness ==
    /\ listRes.called /\ listRes.kind = "list" /\ listRes.arg = ""
    /\ listRes.cfgName = "work"
    /\ listRes.err = "failed to list instances"
    /\ \E n \in Names :
          /\ StackKey(Profiles["work"], n) \in DOMAIN stacks
          /\ "instanceID" \in DOMAIN stacks[StackKey(Profiles["work"], n)].outputs

\* the listing was list-all on a file backend
ListedAll ==
    /\ listRes.called /\ listRes.kind = "list" /\ listRes.arg = ""
    /\ FileBackend(listRes.cfgName)

\* C20: list-all returns success with exactly one row per name List()
\* returned, in order; the row of an instance whose outputs or probe failed
\* shows no lifecycle state (an error or unknown state), the others their state.
C20_ListAllOneRowPerInstance ==
    ListedAll
        => /\ listRes.err = ""
           /\ Len(listRes.rows) = Len(listRes.listed)
           /\ \A i \in 1..Len(listRes.listed) :
                 LET n == listRes.listed[i]
                 IN  /\ listRes.rows[i].name = n
                     /\ IF listRes.probed[n] \in LifecycleStates
                        THEN listRes.rows[i].state = listRes.probed[n]
                        ELSE listRes.rows[i].state \notin LifecycleStates

\* C20 witness: list-all of two instances; the provider does not find the
\* instance of one, the other has no instance id; both have their row.
C20_Witness ==
    /\ ListedAll
    /\ Len(listRes.rows) = 2
    /\ \E i, j \in 1..2 :
          /\ listRes.probed[listRes.listed[i]] = "instance not found"
          /\ listRes.rows[i].state = "Error: instance not found"
          /\ listRes.rows[j].state = "Provisioning/Error"

\* C21: Save followed by Load returns a config with the same current profile,
\* the same set of profile names and, per profile, the same Env map; Load
\* with no config file returns, without error, the empty default config
C21_RoundTrip ==
    /\ confRes.called /\ confRes.kind = "load" =>
          \A saved \in confRes.saved :
              /\ confRes.err = ""
              /\ confRes.cfg.CurrentProfile = saved.CurrentProfile
              /\ DOMAIN confRes.cfg.Profiles = DOMAIN saved.Profiles
              /\ \A n \in DOMAIN saved.Profiles :
                    confRes.cfg.Profiles[n].Env = saved.Profiles[n].Env
    /\ confRes.called /\ confRes.kind = "load" /\ confRes.files = NoFiles =>
          /\ confRes.err = ""
          /\ confRes.cfg.CurrentProfile = ""
          /\ confRes.cfg.Profiles = EmptyMap

\* a config with two profiles, one with environment variables, was saved and
\* loaded back
C21_Witness ==
    /\ confRes.called /\ confRes.kind = "load"
    /\ \E saved \in confRes.saved :
          /\ DOMAIN saved.Profiles = {"default", "work"}
          /\ saved.Profiles["work"].Env = ("FOO" :> "bar") @@ ("BAZ" :> "qux")
          /\ saved.CurrentProfile = "gone"

\* C30: after config new and config use commands from an empty
\* configuration, current_profile is empty or names an existing profile, and
\* a failing command leaves the saved configuration unchanged
C30_CurrentProfileExists ==
    /\ [](Load(conf).cfg.CurrentProfile \in {""} \cup DOMAIN Load(conf).cfg.Profiles)
    /\ [][confRes'.called /\ confRes'.err # "" => conf' = conf]_vars

\* use of a missing name failed after a profile had been created and made
\* current
C30_Witness ==
    /\ confRes.called /\ confRes.kind = "use" /\ confRes.err = "profile does not exist"
    /\ Load(conf).cfg.CurrentProfile = "default"
    /\ DOMAIN Load(conf).cfg.Profiles = {"default", "work"}

\* the program of the Up in flight on name, and the step it is at
ProgramOf(n) == Program(ProviderCfg(ops[n].cfgName), ops[n].spec)

UrnOfRole(prog, role) ==
    prog[CHOOSE i \in 1..Len(prog) : prog[i].kind = "resource" /\ prog[i].role = role].urn

\* the step of the Up in flight on n realizes a resource
Realizes(n) ==
    /\ ops[n].kind = "up" /\ ops[n].pc <= Len(ProgramOf(n))
    /\ ProgramOf(n)[ops[n].pc].kind = "resource"
    /\ ops'[n].kind = "up" /\ ops'[n].pc = ops[n].pc + 1

\* C22: for every provider configuration, a resource is registered and
\* realized only after every resource it depends on (attachment and instance
\* profile after the role; instance after key, security group, instance
\* profile, key pair and image id), and nothing depends on the instance
C22_DependenciesFirst ==
    /\ [][\A n \in Names : Realizes(n) =>
            LET prog == ProgramOf(n)
                step == prog[ops[n].pc]
            IN  /\ \A r \in step.deps :
                      /\ UrnOfRole(prog, r) \in ops[n].registered
                      /\ UrnOfRole(prog, r) \in Urns(stacks[ops[n].key])
                /\ step.role = "instance" => ops[n].ami # ""]_vars
    /\ [](\A n \in Names : ops[n].kind = "up" =>
            LET prog == ProgramOf(n)
            IN  /\ \A i \in 1..Len(prog) :
                      prog[i].kind = "resource" => "instance" \notin prog[i].deps
                /\ \A i \in 1..Len(prog) :
                      (prog[i].kind = "resource" /\ prog[i].role \in {"rpa", "profile"})
                          => prog[i].deps = {"role"}
                /\ prog[Len(prog)].role = "instance"
                /\ prog[Len(prog)].deps =
                      {"key", "sg", "profile"} \cup
                      (IF ProviderCfg(ops[n].cfgName).SSHPublicKey # ""
                       THEN {"keypair"} ELSE {}))

\* an instance with a key pair and a pinned image was created
C22_Witness ==
    \E n \in Names :
        /\ hist[n] # <<>> /\ SuccessfulUp(hist[n][1]) /\ hist[n][1].cfgName = "pinned"
        /\ Cardinality(hist[n][1].created) = 7

\* C24: Up stops at the first step that fails: the command returns the
\* failure at once, the failed step is not run again, and the deployment
\* holds what it held before that step and nothing registered later
C24_StopsAtFirstFailure ==
    [][\A n \in Names :
          (ops[n].kind = "up" /\ ops'[n] # ops[n] /\ stacks' = stacks
           /\ ops[n].pc <= Len(ProgramOf(n))
           /\ ~(ops'[n].kind = "up" /\ ops'[n].pc = ops[n].pc + 1
                 /\ (ProgramOf(n)[ops[n].pc].kind = "resource"
                        => Diff(stacks[ops[n].key], ProgramOf(n)[ops[n].pc].urn,
                                StepInputs(ProviderCfg(ops[n].cfgName), ops[n].spec,
                                           ProgramOf(n)[ops[n].pc], ops[n].ami)) = "same")))
          => /\ ops'[n] = Idle
             /\ ~hist'[n][1].ok
             /\ cloud' = cloud
             /\ hist'[n][1].post = stacks[ops[n].key]
             /\ \A i \in (ops[n].pc)..Len(ProgramOf(n)) :
                   ProgramOf(n)[i].kind = "resource"
                       => ProgramOf(n)[i].urn \notin
                             (ops[n].registered \cup hist'[n][1].created)]_vars

\* an Up failed at the instance step after it had created the resources
\* before it
C24_Witness ==
    \E n \in Names :
        /\ hist[n] # <<>> /\ hist[n][1].kind = "up" /\ ~hist[n][1].ok
        /\ Cardinality(hist[n][1].created) = 6
        /\ ops[n] = Idle

\* C25: with aws.ami set the instance uses exactly that image and the
\* program makes no image lookup; with aws.ami empty the instance uses the
\* image the lookup of that run answered
C25_OverrideWins ==
    /\ \A n \in Names : \A i \in 1..Len(hist[n]) :
          LET h == hist[n][i]
              override == Profiles[h.cfgName].AWS.AMI
          IN  SuccessfulUp(h) =>
                 /\ InstanceInputs(h).Ami = (IF override # "" THEN override ELSE h.ami)
                 /\ override = "" => h.ami \in SeqToSet(Amis)
    /\ \A n \in Names : ops[n].kind = "up" =>
          ((\E i \in 1..Len(ProgramOf(n)) :
                ProgramOf(n)[i].kind = "invoke" /\ ProgramOf(n)[i].what = "lookupAmi")
             <=> Profiles[ops[n].cfgName].AWS.AMI = "")

\* an instance was created under a profile with an override after a newer
\* image had been published
C25_Witness ==
    \E n \in Names :
        /\ hist[n] # <<>> /\ SuccessfulUp(hist[n][1])
        /\ Profiles[hist[n][1].cfgName].AWS.AMI = "ami-0override"
        /\ latestAmi # Amis[1]

\* C28: the logical names of the resources of one program (instance name
\* plus role suffix) are pairwise distinct.
C28_LogicalIdsDistinct ==
    build.called =>
        \A i, j \in 1..Len(build.nodes) :
            i # j => build.nodes[i][2] # build.nodes[j][2]

\* how often name n occurs in the sequence q
Occurrences(q, n) == Cardinality({i \in 1..Len(q) : q[i] = n})

\* C23: under every interleaving of the probe goroutines the filtered
\* discovery returns only when every probe has finished, and its result
\* holds each listed name whose probed state matches exactly once and no
\* other name, whichever probes failed or returned early
C23_EachMatchOnce ==
    /\ [][(disc.phase = "probing" /\ disc'.phase = "done")
            => /\ disc.pending = {} /\ disc.waiting = {} /\ disc.reads = EmptyMap
               /\ DOMAIN disc.probed = SeqToSet(disc.listed)]_vars
    /\ []((disc.phase = "done" /\ disc.err = "" /\ disc.filter # "")
            => /\ \A n \in SeqToSet(disc.listed) :
                    Occurrences(disc.result, n) =
                       (IF Match(disc.filter, disc.probed[n]) THEN 1 ELSE 0)
               /\ SeqToSet(disc.result) \subseteq SeqToSet(disc.listed))

\* both listed instances matched the desired state and were collected
C23_Witness ==
    /\ disc.phase = "done" /\ disc.filter = "running"
    /\ Len(disc.listed) = 2
    /\ \A n \in Names : disc.probed[n] = "running"
    /\ Len(disc.result) = 2

\* C26: GetOutputs for a name without a deployment creates no stack and no
\* partition: the stacks and the names ListStacks returns are the same
\* before and after the call.
C26_GetOutputsLeavesListUnchanged ==
    [][(getRes' # getRes /\ getRes'.called /\ ~getRes'.existed)
          => /\ DOMAIN stacks' = DOMAIN stacks
             /\ ListStacks(Profiles[getRes'.cfgName], stacks') =
                   ListStacks(Profiles[getRes'.cfgName], stacks)]_vars

\* C27: under a file:// backend Up, Destroy and GetOutputs of a name work on
\* the one partition getEnv derives, and once an Up of the name has
\* succeeded ListStacks returns the name.
C27_UpThenListed ==
    /\ [][\A n \in Names : OperatesOn(n) =>
             WrittenKeys \subseteq
                {StackKey(Profiles[p], n) : p \in FileProfiles}]_vars
    /\ [](\A n \in Names : \A i \in 1..Len(hist[n]) :
             (SuccessfulUp(hist[n][i]) /\ FileBackend(hist[n][i].cfgName))
                => n \in SeqToSet(ListStacks(Profiles[hist[n][i].cfgName], stacks).stacks))

\* the script name the outputs of instance n report under the current
\* profile, "" when n is not provisioned
ReportedScript(n) ==
    LET key == StackKey(Profiles["default"], n)
    IN  IF key \in DOMAIN stacks /\ OutputString(stacks[key].outputs, "instanceID") # ""
        THEN OutputString(stacks[key].outputs, "userDataName")
        ELSE ""

\* C29: every provisioned instance whose userDataName output is non-empty
\* names a stored script, and a userdata delete of a script some instance
\* reports is refused and leaves the store unchanged.
C29_ScriptsInUseStayStored ==
    /\ [](\A n \in Names :
             ReportedScript(n) # ""
                => ReportedScript(n) \in DOMAIN Load(conf).cfg.UserData)
    /\ [][(confRes' # confRes /\ confRes'.called /\ confRes'.kind = "userdata delete"
            /\ \E n \in Names : ReportedScript(n) # "" /\ ReportedScript(n) = confRes'.name)
           => (confRes'.err # "" /\ conf' = conf)]_vars

====
